---- MODULE Spec2Model ----
(***************************************************************************)
(* GenMusicAI, src/utils.py: the audio pipeline as a state machine.        *)
(*                                                                         *)
(*   process_audio_file -> interpret_audio_with_tools ->                   *)
(*   parse_gemini_response -> validate_audio_effects -> filter building    *)
(*   -> subprocess.run(ffmpeg)                                             *)
(*                                                                         *)
(* Numbers are fixed point, in tenths: 15 is 1.5, 1000 is 100, so that the *)
(* Tempo range (0.5, 2.0) is (5, 20).  Python numbers are unbounded, so no  *)
(* width is modelled.                                                      *)
(*                                                                         *)
(* A decoded JSON value is a record tagged by k:                           *)
(*   [k |-> "num", n]        an int or float                               *)
(*   [k |-> "str", s]        a string                                      *)
(*   [k |-> "None"]          null                                          *)
(*   [k |-> "list", items]   a list, items a sequence of values            *)
(*   [k |-> "obj", members]  a dict, members a sequence of <<key, value>>  *)
(*                           in insertion order, keys distinct             *)
(***************************************************************************)
EXTENDS Integers, Sequences, FiniteSets, TLC

\* ---------------------------------------------------------------- bounds

\* Most parameter records in one descriptor drawn as an input, over all its
\* effects together; an effect that holds no record counts as one.
MaxRecords == 2

\* Longest reply text (in tokens) drawn as an input of the parser.
MaxTextLen == 6

\* ------------------------------------------------------------ JSON values

Num(n) == [k |-> "num", n |-> n]
Str(s) == [k |-> "str", s |-> s]
NoneVal == [k |-> "None"]
List(items) == [k |-> "list", items |-> items]
Obj(members) == [k |-> "obj", members |-> members]

\* dict: key in d
HasKey(d, key) == \E i \in 1..Len(d.members) : d.members[i][1] = key

\* dict.get(key): the value, or None when the key is absent
Get(d, key) ==
  IF HasKey(d, key)
  THEN d.members[CHOOSE i \in 1..Len(d.members) : d.members[i][1] = key][2]
  ELSE NoneVal

\* d[key] = value: an existing key keeps its place, a new one goes last
SetItem(d, key, value) ==
  IF HasKey(d, key)
  THEN Obj([i \in 1..Len(d.members) |->
              IF d.members[i][1] = key THEN <<key, value>> ELSE d.members[i]])
  ELSE Obj(Append(d.members, <<key, value>>))

\* ------------------------------------------------------------ PARAM_LIMITS

\* (min, max) in tenths
PARAM_LIMITS ==
  [EQ     |-> [frequency |-> <<200, 200000>>, gain |-> <<-120, 120>>],
   Gain   |-> [gain_level |-> <<-120, 120>>],
   Reverb |-> [reverb_amount |-> <<0, 200>>],
   Tempo  |-> [tempo_factor |-> <<5, 20>>]]

\* builtins min and max on two numbers
PyMin(a, b) == IF b < a THEN b ELSE a
PyMax(a, b) == IF b > a THEN b ELSE a

\* a clamp that forgets the lower bound
clampUpperOnly(value, min_val, max_val) == PyMin(value, max_val)

clamp(value, min_val, max_val) == PyMax(min_val, PyMin(value, max_val))

\* -------------------------------------------------- validate_audio_effects

\* What `for x in v` yields.  A number or None is not iterable (TypeError).
\* A dict yields its keys and a string its characters, all strings; the
\* characters of a string are stood for by the string itself.
Iterable(v) == v.k \in {"list", "obj", "str"}

IterItems(v) ==
  CASE v.k = "list" -> v.items
    [] v.k = "obj"  -> [i \in 1..Len(v.members) |-> Str(v.members[i][1])]
    [] v.k = "str"  -> IF v.s = "" THEN <<>> ELSE <<v>>
    [] OTHER        -> <<>>

\* line 106: key in PARAM_LIMITS[effect]
Limited(effect, key) == key \in DOMAIN PARAM_LIMITS[effect]

\* a store that rebinds the record to the clamped field alone
StoreAsNewRecord(param, key, value) == Obj(<<<<key, value>>>>)

\* line 108: param[key] = ...
StoreClamped(param, key, value) == SetItem(param, key, value)

RECURSIVE ValidateMembers(_, _, _)
\* lines 105-108: the fields of one record from the i-th on.  A limited key
\* whose value is not a number makes min() raise TypeError: the loop stops
\* there, the fields before it already clamped.
ValidateMembers(effect, param, i) ==
  IF i > Len(param.members) THEN [raised |-> FALSE, v |-> param]
  ELSE LET key == param.members[i][1]
           value == param.members[i][2]
       IN IF Limited(effect, key)
          THEN IF value.k # "num" THEN [raised |-> TRUE, v |-> param]
               ELSE LET lim == PARAM_LIMITS[effect][key]
                    IN ValidateMembers(effect,
                         StoreClamped(param, key, Num(clamp(value.n, lim[1], lim[2]))),
                         i + 1)
          ELSE ValidateMembers(effect, param, i + 1)

RECURSIVE ValidateItems(_, _, _)
\* lines 104-108: the records of one effect from the i-th on.  An item that
\* is not a dict has no .items() (AttributeError).
ValidateItems(effect, items, i) ==
  IF i > Len(items) THEN [raised |-> FALSE, v |-> items]
  ELSE IF items[i].k # "obj" THEN [raised |-> TRUE, v |-> items]
  ELSE LET r == ValidateMembers(effect, items[i], 1)
           done == [items EXCEPT ![i] = r.v]
       IN IF r.raised THEN [raised |-> TRUE, v |-> done]
          ELSE ValidateItems(effect, done, i + 1)

\* lines 103-108 for one effect: its params after the loop.  Only a list
\* holds records that can change; a dict or a string yields strings.
ValidateParams(effect, params) ==
  IF ~Iterable(params) THEN [raised |-> TRUE, v |-> params]
  ELSE LET r == ValidateItems(effect, IterItems(params), 1)
       IN [raised |-> r.raised,
           v |-> IF params.k = "list" THEN List(r.v) ELSE params]

RECURSIVE ValidateEntries(_, _)
\* lines 102-108: the effects from the i-th on
ValidateEntries(effects, i) ==
  IF i > Len(effects.members) THEN [raised |-> FALSE, v |-> effects]
  ELSE LET effect == effects.members[i][1]
           params == effects.members[i][2]
       IN IF effect \in DOMAIN PARAM_LIMITS
          THEN LET r == ValidateParams(effect, params)
                   done == SetItem(effects, effect, r.v)
               IN IF r.raised THEN [raised |-> TRUE, v |-> done]
                  ELSE ValidateEntries(done, i + 1)
          ELSE ValidateEntries(effects, i + 1)

\* [raised, v]: whether an exception left the function, and the descriptor
\* as the in-place clamps left it
validate_audio_effects(effects) == ValidateEntries(effects, 1)

\* --------------------------------------------------- parse_gemini_response

\* A reply text is a sequence of tokens: the punctuation of JSON, a number,
\* a string literal, null, or a word of prose.  Prose may hold braces.
Tok(c) == [k |-> c]
Lit(s) == [k |-> "lit", s |-> s]

BraceAt(text, c) == {i \in 1..Len(text) : text[i].k = c}

\* a search that ends the span at the first closing brace after its start
RegexSearchLazy(text) ==
  LET opens == BraceAt(text, "{")
      first == CHOOSE i \in opens : \A j \in opens : i <= j
      closes == {j \in BraceAt(text, "}") : opens # {} /\ j > first}
      last == CHOOSE j \in closes : \A h \in closes : j <= h
  IN IF opens = {} \/ closes = {} THEN [found |-> FALSE, span |-> <<>>]
     ELSE [found |-> TRUE, span |-> SubSeq(text, first, last)]

\* line 117: re.search(r"\{.*\}", text, re.DOTALL), the leftmost match and,
\* the star being greedy, the longest: from the first "{" to the last "}"
RegexSearch(text) ==
  LET opens == BraceAt(text, "{")
      first == CHOOSE i \in opens : \A j \in opens : i <= j
      closes == {j \in BraceAt(text, "}") : opens # {} /\ j > first}
      last == CHOOSE j \in closes : \A h \in closes : j >= h
  IN IF opens = {} \/ closes = {} THEN [found |-> FALSE, span |-> <<>>]
     ELSE [found |-> TRUE, span |-> SubSeq(text, first, last)]

ParseFail == [ok |-> FALSE, val |-> NoneVal, next |-> 0]
ParseOk(val, next) == [ok |-> TRUE, val |-> val, next |-> next]
TokIs(toks, i, c) == i <= Len(toks) /\ toks[i].k = c

RECURSIVE ParseValue(_, _)
RECURSIVE ParseElements(_, _, _)
RECURSIVE ParseMembers(_, _, _)

\* the JSON decoder, one value starting at token i: [ok, val, next]
ParseValue(toks, i) ==
  IF i > Len(toks) THEN ParseFail
  ELSE CASE toks[i].k \in {"num", "str"} -> ParseOk(toks[i], i + 1)
         [] toks[i].k = "null" -> ParseOk(NoneVal, i + 1)
         [] toks[i].k = "[" ->
              IF TokIs(toks, i + 1, "]") THEN ParseOk(List(<<>>), i + 2)
              ELSE ParseElements(toks, i + 1, <<>>)
         [] toks[i].k = "{" ->
              IF TokIs(toks, i + 1, "}") THEN ParseOk(Obj(<<>>), i + 2)
              ELSE ParseMembers(toks, i + 1, Obj(<<>>))
         [] OTHER -> ParseFail

\* the elements of an array after "[" or ",": value ("," value)* "]"
ParseElements(toks, i, acc) ==
  LET r == ParseValue(toks, i)
  IN IF ~r.ok THEN ParseFail
     ELSE IF TokIs(toks, r.next, ",")
          THEN ParseElements(toks, r.next + 1, Append(acc, r.val))
     ELSE IF TokIs(toks, r.next, "]")
          THEN ParseOk(List(Append(acc, r.val)), r.next + 1)
     ELSE ParseFail

\* the members of an object after "{" or ",": string ":" value, then "," or
\* "}".  A repeated key keeps its first place and takes the last value.
ParseMembers(toks, i, acc) ==
  IF ~(TokIs(toks, i, "str") /\ TokIs(toks, i + 1, ":")) THEN ParseFail
  ELSE LET r == ParseValue(toks, i + 2)
       IN IF ~r.ok THEN ParseFail
          ELSE IF TokIs(toks, r.next, ",")
               THEN ParseMembers(toks, r.next + 1, SetItem(acc, toks[i].s, r.val))
          ELSE IF TokIs(toks, r.next, "}")
               THEN ParseOk(SetItem(acc, toks[i].s, r.val), r.next + 1)
          ELSE ParseFail

\* line 120: json.loads(json_text); the text must be one value and no more
\* (JSONDecodeError otherwise)
JsonLoads(toks) ==
  LET r == ParseValue(toks, 1)
  IN IF r.ok /\ r.next = Len(toks) + 1 THEN [ok |-> TRUE, val |-> r.val]
     ELSE [ok |-> FALSE, val |-> NoneVal]

\* lines 112-129.  An error string has no .candidates, and a reply without
\* a candidate has no candidates[0]: both raise inside the try and end as
\* None, as does a span that does not decode.
parse_gemini_response(resp) ==
  IF resp.k # "response" \/ ~resp.has_text THEN NoneVal
  ELSE LET m == RegexSearch(resp.text)
       IN IF m.found
          THEN LET d == JsonLoads(m.span) IN IF d.ok THEN d.val ELSE NoneVal
          ELSE NoneVal

\* ------------------------------------------------------- the filter chain

\* an f-string field: a number prints its digits, None prints "None"
Fmt(v) ==
  CASE v.k = "num"  -> v
    [] v.k = "None" -> Lit("None")
    [] v.k = "str"  -> Lit(v.s)
    [] OTHER        -> Lit("<repr>")

\* a tempo template that prints the factor as a gain in dB
TempoAsVolume(param) ==
  <<Lit("volume="), Fmt(Get(param, "tempo_factor")), Lit("dB")>>

\* lines 150-152, 157-158, 163-164, 169-170: the four templates
EqFilter(param) ==
  <<Lit("equalizer=f="), Fmt(Get(param, "frequency")),
    Lit(":t=q:w=1:g="), Fmt(Get(param, "gain"))>>
GainFilter(param) == <<Lit("volume="), Fmt(Get(param, "gain_level")), Lit("dB")>>
ReverbFilter(param) ==
  <<Lit("aecho=1.0:0.5:"), Fmt(Get(param, "reverb_amount")), Lit(":0.5")>>
TempoFilter(param) == <<Lit("atempo="), Fmt(Get(param, "tempo_factor"))>>

FilterOf(effect, param) ==
  CASE effect = "EQ"     -> EqFilter(param)
    [] effect = "Gain"   -> GainFilter(param)
    [] effect = "Reverb" -> ReverbFilter(param)
    [] effect = "Tempo"  -> TempoFilter(param)

\* lines 148, 155, 161, 167: the effect names the if/elif chain knows
BuiltEffects == {"EQ", "Gain", "Reverb", "Tempo"}

RECURSIVE BuildItems(_, _, _, _)
\* one `for param in params` loop from the i-th item on: an item that is
\* not a dict has no .get() (AttributeError)
BuildItems(effect, items, i, filters) ==
  IF i > Len(items) THEN [raised |-> FALSE, v |-> filters]
  ELSE IF items[i].k # "obj" THEN [raised |-> TRUE, v |-> filters]
  ELSE BuildItems(effect, items, i + 1, Append(filters, FilterOf(effect, items[i])))

RECURSIVE BuildEntries(_, _, _)
\* lines 147-171: the effects from the i-th on
BuildEntries(effects, i, filters) ==
  IF i > Len(effects.members) THEN [raised |-> FALSE, v |-> filters]
  ELSE LET effect == effects.members[i][1]
           params == effects.members[i][2]
       IN IF effect \in BuiltEffects
          THEN IF ~Iterable(params) THEN [raised |-> TRUE, v |-> filters]
               ELSE LET r == BuildItems(effect, IterItems(params), 1, filters)
                    IN IF r.raised THEN r ELSE BuildEntries(effects, i + 1, r.v)
          ELSE BuildEntries(effects, i + 1, filters)

\* lines 145-171: ffmpeg_filters after the loop
BuildFfmpegFilters(effects) == BuildEntries(effects, 1, <<>>)

RECURSIVE JoinTrailing(_)
\* a join that ends every expression with the delimiter
JoinTrailing(filters) ==
  IF filters = <<>> THEN <<>>
  ELSE filters[1] \o <<Lit(",")>> \o JoinTrailing(Tail(filters))

RECURSIVE Join(_)
\* line 173: ",".join(ffmpeg_filters)
Join(filters) ==
  IF filters = <<>> THEN <<>>
  ELSE IF Len(filters) = 1 THEN filters[1]
  ELSE filters[1] \o <<Lit(",")>> \o Join(Tail(filters))

\* ------------------------------------------------------------- the inputs

\* The effect names a reply may use: the four of PARAM_LIMITS and one the
\* program does not know.
EffectNames == DOMAIN PARAM_LIMITS \cup {"Distortion"}

\* The field names a record of an effect may use: the effect's own
\* parameters, and "gain", which is a parameter of EQ alone.
FieldKeys(effect) ==
  (IF effect \in DOMAIN PARAM_LIMITS THEN DOMAIN PARAM_LIMITS[effect] ELSE {})
    \cup (IF effect \in {"Gain", "Distortion"} THEN {"gain"} ELSE {})

\* The values a field may hold.  Under a range (min, max): just below it,
\* its two ends, just above it, and null.  Under no range: 25000, a number
\* outside every range of PARAM_LIMITS, and null.
InputVals(effect, key) ==
  IF effect \in DOMAIN PARAM_LIMITS /\ key \in DOMAIN PARAM_LIMITS[effect]
  THEN LET lim == PARAM_LIMITS[effect][key]
       IN {Num(lim[1] - 1), Num(lim[1]), Num(lim[2]), Num(lim[2] + 1), NoneVal}
  ELSE {Num(250000), NoneVal}

KeyOrder == <<"frequency", "gain", "gain_level", "reverb_amount", "tempo_factor">>

\* the record holding the fields of f, in the order of KeyOrder
RecordOf(f) ==
  LET keys == SelectSeq(KeyOrder, LAMBDA key : key \in DOMAIN f)
  IN Obj([i \in 1..Len(keys) |-> <<keys[i], f[keys[i]]>>])

\* The items of an effect's list: every record over its field names, and a
\* bare number where a record should be.
Items(effect) ==
  {RecordOf(f) : f \in UNION {{g \in [S -> UNION {InputVals(effect, key) : key \in S}] :
                                   \A key \in S : g[key] \in InputVals(effect, key)} :
                               S \in SUBSET FieldKeys(effect)}}
    \cup {Num(1000)}

\* What an effect name maps to before any record is written under it: the
\* empty list, or a bare number where the list should be.
EmptyParams == {List(<<>>), Num(1000)}

\* --------------------------------------------------------------- the state

VARIABLES
  pc,              \* the statement the script is at
  audio_metadata,  \* line 79: "unset", "dict" or "None"
  response,        \* lines 88, 195: the model's reply, or an error string
  suggestions,     \* lines 133, 143: the descriptor, decoded then clamped
  parsed,          \* history: what parse_gemini_response returned
  ffmpeg_filters,  \* line 145
  ffmpeg_runs,     \* history: the commands handed to subprocess.run
  output_file,     \* line 198: what apply_suggested_modifications returned
  trace            \* history: the pipeline steps entered, in order

vars == <<pc, audio_metadata, response, suggestions, parsed, ffmpeg_filters,
          ffmpeg_runs, output_file, trace>>

Unset == [k |-> "unset"]
ErrorStr(s) == [k |-> "str", s |-> s]
Response(has_text, text) == [k |-> "response", has_text |-> has_text, text |-> text]

\* line 175
OutputFile == "output_track.mp3"
\* line 192
FilePath == "Post_Weekend.mp3"

\* ---------------------------------------------------------- reply texts

RECURSIVE Encode(_)
RECURSIVE EncodeItems(_, _)
RECURSIVE EncodeMembers(_, _)

\* the JSON text of a value, as the model writes it
Encode(v) ==
  CASE v.k \in {"num", "str"} -> <<v>>
    [] v.k = "None" -> <<Tok("null")>>
    [] v.k = "list" -> <<Tok("[")>> \o EncodeItems(v.items, 1) \o <<Tok("]")>>
    [] v.k = "obj"  -> <<Tok("{")>> \o EncodeMembers(v.members, 1) \o <<Tok("}")>>

EncodeItems(items, i) ==
  IF i > Len(items) THEN <<>>
  ELSE (IF i > 1 THEN <<Tok(",")>> ELSE <<>>)
         \o Encode(items[i]) \o EncodeItems(items, i + 1)

EncodeMembers(members, i) ==
  IF i > Len(members) THEN <<>>
  ELSE (IF i > 1 THEN <<Tok(",")>> ELSE <<>>)
         \o <<Str(members[i][1]), Tok(":")>> \o Encode(members[i][2])
         \o EncodeMembers(members, i + 1)

Rec1(key, n) == Obj(<<<<key, Num(n)>>>>)

\* lines 25-39: the example of the prompt
PromptExample ==
  Obj(<<<<"EQ", List(<<Obj(<<<<"frequency", Num(1000)>>, <<"gain", Num(-120)>>>>),
                       Obj(<<<<"frequency", Num(25000)>>, <<"gain", Num(60)>>>>)>>)>>,
        <<"Reverb", List(<<Rec1("reverb_amount", 50)>>)>>,
        <<"Gain", List(<<Rec1("gain_level", 30)>>)>>,
        <<"Tempo", List(<<Rec1("tempo_factor", 12)>>)>>>>)

\* {"Tempo": [{"tempo_factor": 1.5}]}
TempoExample == Obj(<<<<"Tempo", List(<<Rec1("tempo_factor", 15)>>)>>>>)

\* The descriptors the model writes in the pipeline's runs: the example of
\* the prompt, one effect, values out of range, an unknown effect, a record
\* short of a parameter, none at all, and the shapes a model gets wrong (a
\* null, a dict where the list should be).
ReplyDescriptors ==
  {PromptExample, TempoExample,
   Obj(<<<<"Gain", List(<<Rec1("gain_level", 30)>>)>>>>),
   Obj(<<<<"Tempo", List(<<Rec1("tempo_factor", 50)>>)>>,
         <<"Gain", List(<<Rec1("gain_level", -500)>>)>>>>),
   Obj(<<<<"Distortion", List(<<Rec1("gain", 250000)>>)>>,
         <<"Reverb", List(<<Rec1("reverb_amount", 250)>>)>>>>),
   Obj(<<<<"EQ", List(<<Rec1("frequency", 1000)>>)>>>>),
   Obj(<<>>),
   Obj(<<<<"Gain", List(<<Obj(<<<<"gain_level", NoneVal>>>>)>>)>>>>),
   Obj(<<<<"Tempo", Rec1("tempo_factor", 15)>>>>)}

Prose == Tok("prose")

\* What the model writes around the JSON: nothing, prose, prose with a brace
Prefixes == {<<>>, <<Prose>>, <<Tok("{"), Prose>>, <<Tok("}"), Prose>>}
Suffixes == {<<>>, <<Prose>>, <<Prose, Tok("{")>>, <<Prose, Tok("}")>>}

\* What model.generate_content returns when it returns: a reply blocked
\* before any text, prose alone, or a descriptor in JSON amid prose
ModelReplies ==
  {Response(FALSE, <<>>), Response(TRUE, <<Prose, Prose>>)}
    \cup {Response(TRUE, pre \o Encode(d) \o post) :
            pre \in Prefixes, d \in ReplyDescriptors, post \in Suffixes}

\* The tokens of the texts drawn for the parser alone
ParseAlphabet == {Tok("{"), Tok("}"), Tok(":"), Str("Gain"), Prose}

ParseTexts == UNION {[1..n -> ParseAlphabet] : n \in 0..MaxTextLen}

\* ------------------------------------------------------------- the steps

\* the truth value of what analyze_audio_and_send_to_gemini returned
Truthy(resp) ==
  CASE resp.k = "str"      -> resp.s # ""
    [] resp.k = "response" -> TRUE
    [] OTHER               -> FALSE

\* lines 195, 78-81, 94-95 and 60-75: librosa loads the file or raises
ProcessAudio ==
  /\ pc = "process_audio"
  /\ \E loaded \in BOOLEAN :
       /\ audio_metadata' = IF loaded THEN "dict" ELSE "None"
       /\ IF loaded
          THEN pc' = "interpret" /\ UNCHANGED response
          ELSE /\ response' = ErrorStr("Error: Unable to process the audio file.")
               /\ pc' = "top_level"
  /\ trace' = Append(trace, "metadata")
  /\ UNCHANGED <<suggestions, parsed, ffmpeg_filters, ffmpeg_runs, output_file>>

\* lines 82-93 and 22-57: the model returns a reply or the call raises
CallModel ==
  /\ pc = "interpret"
  /\ \E reply \in ModelReplies \cup {NoneVal} :
       response' = IF reply = NoneVal
                   THEN ErrorStr("Error: Failed to get response from Gemini.")
                   ELSE reply
  /\ pc' = "top_level"
  /\ trace' = Append(trace, "model")
  /\ UNCHANGED <<audio_metadata, suggestions, parsed, ffmpeg_filters, ffmpeg_runs,
                 output_file>>

\* lines 197, 203-204: if response
TopLevel ==
  /\ pc = "top_level"
  /\ pc' = IF Truthy(response) THEN "parse" ELSE "done"
  /\ UNCHANGED <<audio_metadata, response, suggestions, parsed, ffmpeg_filters,
                 ffmpeg_runs, output_file, trace>>

\* lines 198 and 133-137
ParseReply ==
  /\ pc = "parse"
  /\ LET s == parse_gemini_response(response)
     IN /\ suggestions' = s
        /\ parsed' = s
        /\ IF s = NoneVal
           THEN output_file' = "None" /\ pc' = "report"
           ELSE pc' = "validate" /\ UNCHANGED output_file
  /\ trace' = Append(trace, "parse")
  /\ UNCHANGED <<audio_metadata, response, ffmpeg_filters, ffmpeg_runs>>

\* lines 142-143: an exception of validate_audio_effects is none of the two
\* the try catches (lines 184, 187), so it leaves the function and ends the
\* script
Validate ==
  /\ pc = "validate"
  /\ LET r == validate_audio_effects(suggestions)
     IN /\ suggestions' = r.v
        /\ pc' = IF r.raised THEN "crashed" ELSE "build"
  /\ trace' = Append(trace, "validate")
  /\ UNCHANGED <<audio_metadata, response, parsed, ffmpeg_filters, ffmpeg_runs,
                 output_file>>

\* lines 145-171
BuildFilters ==
  /\ pc = "build"
  /\ LET r == BuildFfmpegFilters(suggestions)
     IN /\ ffmpeg_filters' = r.v
        /\ pc' = IF r.raised THEN "crashed" ELSE "run_ffmpeg"
  /\ trace' = Append(trace, "build")
  /\ UNCHANGED <<audio_metadata, response, suggestions, parsed, ffmpeg_runs,
                 output_file>>

\* a run without check=True: the exit status is not looked at
RunFfmpegUnchecked ==
  /\ pc = "run_ffmpeg"
  /\ \E rc \in {0, 1} :
       /\ ffmpeg_runs' = Append(ffmpeg_runs,
                                [input |-> FilePath, af |-> Join(ffmpeg_filters),
                                 output |-> OutputFile, rc |-> rc])
       /\ output_file' = OutputFile
  /\ pc' = "report"
  /\ trace' = Append(trace, "ffmpeg")
  /\ UNCHANGED <<audio_metadata, response, suggestions, parsed, ffmpeg_filters>>

\* a run that is tried again after a non-zero exit
RunFfmpegRetry ==
  /\ pc = "run_ffmpeg"
  /\ \E rc \in {0, 1} :
       /\ ffmpeg_runs' = Append(ffmpeg_runs,
                                [input |-> FilePath, af |-> Join(ffmpeg_filters),
                                 output |-> OutputFile, rc |-> rc])
       /\ IF rc = 0
          THEN output_file' = OutputFile /\ pc' = "report"
          ELSE UNCHANGED <<output_file, pc>>
  /\ trace' = Append(trace, "ffmpeg")
  /\ UNCHANGED <<audio_metadata, response, suggestions, parsed, ffmpeg_filters>>

\* lines 173-189: ffmpeg exits with zero or not (CalledProcessError)
RunFfmpeg ==
  /\ pc = "run_ffmpeg"
  /\ \E rc \in {0, 1} :
       /\ ffmpeg_runs' = Append(ffmpeg_runs,
                                [input |-> FilePath, af |-> Join(ffmpeg_filters),
                                 output |-> OutputFile, rc |-> rc])
       /\ output_file' = IF rc = 0 THEN OutputFile ELSE "None"
  /\ pc' = "report"
  /\ trace' = Append(trace, "ffmpeg")
  /\ UNCHANGED <<audio_metadata, response, suggestions, parsed, ffmpeg_filters>>

\* lines 199-202
Report ==
  /\ pc = "report"
  /\ pc' = "done"
  /\ UNCHANGED <<audio_metadata, response, suggestions, parsed, ffmpeg_filters,
                 ffmpeg_runs, output_file, trace>>

Init ==
  /\ pc = "process_audio"
  /\ audio_metadata = "unset"
  /\ response = Unset
  /\ suggestions = Unset
  /\ parsed = Unset
  /\ ffmpeg_filters = <<>>
  /\ ffmpeg_runs = <<>>
  /\ output_file = "unset"
  /\ trace = <<>>

Next ==
  \/ ProcessAudio
  \/ CallModel
  \/ TopLevel
  \/ ParseReply
  \/ Validate
  \/ BuildFilters
  \/ RunFfmpeg
  \/ Report

\* the whole script, lines 192-204
Spec == Init /\ [][Next]_vars

\* ----------------------------- the parser alone, over every short text

InitParse ==
  /\ pc = "parse"
  /\ audio_metadata = "dict"
  /\ \E text \in ParseTexts : response = Response(TRUE, text)
  /\ suggestions = Unset
  /\ parsed = Unset
  /\ ffmpeg_filters = <<>>
  /\ ffmpeg_runs = <<>>
  /\ output_file = "unset"
  /\ trace = <<"metadata", "model">>

NextParse == ParseReply

SpecParse == InitParse /\ [][NextParse]_vars

\* ------------- apply_suggested_modifications from line 139 on, over every
\* ------------- descriptor within the bounds

\* the records an effect counts for: those of its list, or one with none
RecordsOf(params) ==
  IF params.k = "list" /\ params.items # <<>> THEN Len(params.items) ELSE 1

RECURSIVE RecordCount(_, _)
\* the records of the effects from the i-th on
RecordCount(members, i) ==
  IF i > Len(members) THEN 0
  ELSE RecordsOf(members[i][2]) + RecordCount(members, i + 1)

\* json.loads returns the descriptor one effect at a time ...
DecodeEffect ==
  /\ pc = "decode"
  /\ RecordCount(parsed.members, 1) < MaxRecords
  /\ \E effect \in EffectNames, params \in EmptyParams :
       /\ ~HasKey(parsed, effect)
       /\ parsed' = SetItem(parsed, effect, params)
  /\ UNCHANGED <<pc, audio_metadata, response, suggestions, ffmpeg_filters,
                 ffmpeg_runs, output_file, trace>>

\* ... and one record at a time under the effect it is at
DecodeRecord ==
  /\ pc = "decode"
  /\ parsed.members # <<>>
  /\ LET last == parsed.members[Len(parsed.members)]
     IN /\ last[2].k = "list"
        /\ last[2].items = <<>> \/ RecordCount(parsed.members, 1) < MaxRecords
        /\ \E item \in Items(last[1]) :
             parsed' = SetItem(parsed, last[1], List(Append(last[2].items, item)))
  /\ UNCHANGED <<pc, audio_metadata, response, suggestions, ffmpeg_filters,
                 ffmpeg_runs, output_file, trace>>

\* lines 133-140: the descriptor is back and is not None
Decoded ==
  /\ pc = "decode"
  /\ suggestions' = parsed
  /\ pc' = "validate"
  /\ trace' = Append(trace, "parse")
  /\ UNCHANGED <<audio_metadata, response, parsed, ffmpeg_filters, ffmpeg_runs,
                 output_file>>

InitEffects ==
  /\ pc = "decode"
  /\ audio_metadata = "dict"
  /\ response = Response(TRUE, <<>>)
  /\ suggestions = Unset
  /\ parsed = Obj(<<>>)
  /\ ffmpeg_filters = <<>>
  /\ ffmpeg_runs = <<>>
  /\ output_file = "unset"
  /\ trace = <<"metadata", "model">>

NextEffects ==
  \/ DecodeEffect
  \/ DecodeRecord
  \/ Decoded
  \/ Validate
  \/ BuildFilters
  \/ RunFfmpeg
  \/ Report

SpecEffects == InitEffects /\ [][NextEffects]_vars

\* =============================================================== the claims

\* the step has been entered in this run
Entered(step) == \E i \in 1..Len(trace) : trace[i] = step

\* validate_audio_effects has returned (it did not raise)
ValidationReturned ==
  Entered("validate") /\ ~(pc = "crashed" /\ trace[Len(trace)] = "validate")

\* the nearest point of the closed range [lo, hi] to v
NearestInRange(v, lo, hi) == IF v < lo THEN lo ELSE IF v > hi THEN hi ELSE v

\* C1: once validate_audio_effects has returned, every field that PARAM_LIMITS
\* lists for its effect and that held a number v holds min if v < min, max
\* if v > max, and v itself otherwise.
C1_Clamps ==
  ValidationReturned =>
    \A i \in 1..Len(parsed.members) :
      LET effect == parsed.members[i][1]
          params == parsed.members[i][2]
      IN (effect \in DOMAIN PARAM_LIMITS /\ params.k = "list") =>
           \A j \in 1..Len(params.items) :
             params.items[j].k = "obj" =>
               \A m \in 1..Len(params.items[j].members) :
                 LET key == params.items[j].members[m][1]
                     v == params.items[j].members[m][2]
                 IN (key \in DOMAIN PARAM_LIMITS[effect] /\ v.k = "num") =>
                      suggestions.members[i][2].items[j].members[m] =
                        <<key, Num(NearestInRange(v.n, PARAM_LIMITS[effect][key][1],
                                                  PARAM_LIMITS[effect][key][2]))>>

\* C1's case: an EQ gain above its range and one below it, and an EQ
\* frequency inside its range, after validation
C1_Witness ==
  /\ pc = "build"
  /\ parsed = Obj(<<<<"EQ", List(<<Obj(<<<<"frequency", Num(200)>>, <<"gain", Num(121)>>>>),
                                   Obj(<<<<"gain", Num(-121)>>>>)>>)>>>>)
  /\ suggestions = Obj(<<<<"EQ", List(<<Obj(<<<<"frequency", Num(200)>>, <<"gain", Num(120)>>>>),
                                        Obj(<<<<"gain", Num(-120)>>>>)>>)>>>>)

\* a record of a known effect after validation, against the record before:
\* the same fields in the same order, an unlisted one with the same value
SameRecord(effect, before, after) ==
  /\ after.k = before.k
  /\ before.k # "obj" => after = before
  /\ before.k = "obj" =>
       /\ Len(after.members) = Len(before.members)
       /\ \A m \in 1..Len(before.members) :
            /\ after.members[m][1] = before.members[m][1]
            /\ before.members[m][1] \notin DOMAIN PARAM_LIMITS[effect] =>
                 after.members[m] = before.members[m]

\* the params of a known effect after validation, against those before
SameParams(effect, before, after) ==
  /\ after.k = before.k
  /\ before.k # "list" => after = before
  /\ before.k = "list" =>
       /\ Len(after.items) = Len(before.items)
       /\ \A j \in 1..Len(before.items) :
            SameRecord(effect, before.items[j], after.items[j])

\* a known effect whose params are not a list of records with numbers in
\* their listed fields
Irregular(effect, params) ==
  /\ effect \in DOMAIN PARAM_LIMITS
  /\ \/ params.k # "list"
     \/ \E j \in 1..Len(params.items) :
          \/ params.items[j].k # "obj"
          \/ \E m \in 1..Len(params.items[j].members) :
               /\ params.items[j].members[m][1] \in DOMAIN PARAM_LIMITS[effect]
               /\ params.items[j].members[m][2].k # "num"

\* C2: validation keeps the effect names and their order, everything under
\* an unknown effect name, the number and order of the records of a known
\* one, the field names of each record and the value of every unlisted
\* field; and it raises for none of these.
C2_Frame ==
  Entered("validate") =>
    /\ Len(suggestions.members) = Len(parsed.members)
    /\ \A i \in 1..Len(parsed.members) :
         LET effect == parsed.members[i][1]
         IN /\ suggestions.members[i][1] = effect
            /\ effect \notin DOMAIN PARAM_LIMITS =>
                 suggestions.members[i] = parsed.members[i]
            /\ effect \in DOMAIN PARAM_LIMITS =>
                 SameParams(effect, parsed.members[i][2], suggestions.members[i][2])
    /\ pc = "crashed" =>
         \E i \in 1..Len(parsed.members) :
           Irregular(parsed.members[i][1], parsed.members[i][2])

\* C2's case: a listed field clamped beside an unlisted one, and an unknown
\* effect, both holding a number outside every range
C2_Witness ==
  /\ pc = "build"
  /\ parsed = Obj(<<<<"Gain", List(<<Obj(<<<<"gain", Num(250000)>>,
                                           <<"gain_level", Num(121)>>>>)>>)>>,
                    <<"Distortion", List(<<Obj(<<<<"gain", Num(250000)>>>>)>>)>>>>)
  /\ suggestions = Obj(<<<<"Gain", List(<<Obj(<<<<"gain", Num(250000)>>,
                                                <<"gain_level", Num(120)>>>>)>>)>>,
                         <<"Distortion", List(<<Obj(<<<<"gain", Num(250000)>>>>)>>)>>>>)

RECURSIVE RecordsFrom(_, _)
\* <<effect, record>> for every record of the four effects the builder
\* knows, in the order of the descriptor's keys and of each list
RecordsFrom(members, i) ==
  IF i > Len(members) THEN <<>>
  ELSE (IF members[i][1] \in {"EQ", "Gain", "Reverb", "Tempo"} /\ members[i][2].k = "list"
        THEN [j \in 1..Len(members[i][2].items) |-> <<members[i][1], members[i][2].items[j]>>]
        ELSE <<>>)
       \o RecordsFrom(members, i + 1)

\* what a template prints for a field: the number, or None for a field the
\* record does not hold
Printed(record, key) ==
  IF \E m \in 1..Len(record.members) :
       record.members[m][1] = key /\ record.members[m][2].k = "num"
  THEN (CHOOSE v \in {record.members[m][2] : m \in 1..Len(record.members)} :
          \E m \in 1..Len(record.members) : record.members[m] = <<key, v>>)
  ELSE Lit("None")

\* the expression of one record, by its effect
Expression(effect, record) ==
  CASE effect = "EQ" ->
         <<Lit("equalizer=f="), Printed(record, "frequency"),
           Lit(":t=q:w=1:g="), Printed(record, "gain")>>
    [] effect = "Gain" -> <<Lit("volume="), Printed(record, "gain_level"), Lit("dB")>>
    [] effect = "Reverb" ->
         <<Lit("aecho=1.0:0.5:"), Printed(record, "reverb_amount"), Lit(":0.5")>>
    [] effect = "Tempo" -> <<Lit("atempo="), Printed(record, "tempo_factor")>>

RECURSIVE SplitChain(_, _, _)
\* the expressions of a chain: its tokens cut at every ","
SplitChain(chain, i, current) ==
  IF i > Len(chain) THEN <<current>>
  ELSE IF chain[i] = Lit(",") THEN <<current>> \o SplitChain(chain, i + 1, <<>>)
  ELSE SplitChain(chain, i + 1, Append(current, chain[i]))

Expressions(chain) == IF chain = <<>> THEN <<>> ELSE SplitChain(chain, 1, <<>>)

\* C4: the filter list holds one expression per record of EQ, Gain, Reverb
\* and Tempo and none for another effect, in the order of the descriptor's
\* keys and of each effect's records; the chain is these joined by "," with
\* no delimiter before or after, empty when there is none; and the loop
\* raises for no effect name.
C4_Chain ==
  /\ Entered("build") =>
       /\ pc # "crashed"
       /\ LET records == RecordsFrom(suggestions.members, 1)
          IN /\ Len(ffmpeg_filters) = Len(records)
             /\ \A n \in 1..Len(records) :
                  ffmpeg_filters[n] = Expression(records[n][1], records[n][2])
  /\ \A r \in 1..Len(ffmpeg_runs) :
       /\ Expressions(ffmpeg_runs[r].af) = ffmpeg_filters
       /\ ffmpeg_filters = <<>> => ffmpeg_runs[r].af = <<>>

\* C4's case: the chain of two effects, one record each, handed to ffmpeg
C4_Witness ==
  /\ pc = "report"
  /\ parsed = Obj(<<<<"Tempo", List(<<Obj(<<<<"tempo_factor", Num(5)>>>>)>>)>>,
                    <<"Gain", List(<<Obj(<<<<"gain_level", Num(121)>>>>)>>)>>>>)
  /\ ffmpeg_runs[1].af = <<Lit("atempo="), Num(5), Lit(","),
                           Lit("volume="), Num(120), Lit("dB")>>

\* the text the parser was given
ReplyText == response.text

\* the spans of a text that are one well-formed JSON object each
ObjectSpans(text) ==
  {span \in (1..Len(text)) \X (1..Len(text)) :
     /\ span[1] < span[2]
     /\ text[span[1]].k = "{"
     /\ text[span[2]].k = "}"
     /\ JsonLoads(SubSeq(text, span[1], span[2])).ok}

TheSpan(text) == CHOOSE span \in ObjectSpans(text) : TRUE

\* a "{" with a "}" somewhere after it
HasBraceSpan(text) ==
  \E i, j \in 1..Len(text) : i < j /\ text[i].k = "{" /\ text[j].k = "}"

FirstOpen(text) == CHOOSE i \in 1..Len(text) :
  text[i].k = "{" /\ \A h \in 1..(i - 1) : text[h].k # "{"
LastClose(text) == CHOOSE j \in 1..Len(text) :
  text[j].k = "}" /\ \A h \in (j + 1)..Len(text) : text[h].k # "}"

\* without a brace span the parser returns None; what it returns otherwise
\* is the span from the first "{" to the last "}", decoded
DecodesGreedySpan(text) ==
  /\ ~HasBraceSpan(text) => parsed = NoneVal
  /\ parsed # NoneVal =>
       /\ HasBraceSpan(text)
       /\ JsonLoads(SubSeq(text, FirstOpen(text), LastClose(text))) =
            [ok |-> TRUE, val |-> parsed]

\* C3 as the spec states it: a text that holds exactly one well-formed JSON
\* object, anywhere amid prose, parses to that object.
C3_Original ==
  (Entered("parse") /\ response.k = "response" /\ response.has_text) =>
    /\ Cardinality(ObjectSpans(ReplyText)) = 1 =>
         parsed = JsonLoads(SubSeq(ReplyText, TheSpan(ReplyText)[1],
                                   TheSpan(ReplyText)[2])).val
    /\ DecodesGreedySpan(ReplyText)

\* C3: a text that holds exactly one well-formed JSON object, with no "{"
\* in the prose before it and no "}" in the prose after it, parses to that
\* object; a text without a "{" followed by a "}" parses to None; and the
\* span decoded is the one from the first "{" to the last "}".
C3_Amended ==
  (Entered("parse") /\ response.k = "response" /\ response.has_text) =>
    /\ (/\ Cardinality(ObjectSpans(ReplyText)) = 1
        /\ \A h \in 1..(TheSpan(ReplyText)[1] - 1) : ReplyText[h].k # "{"
        /\ \A h \in (TheSpan(ReplyText)[2] + 1)..Len(ReplyText) : ReplyText[h].k # "}") =>
         parsed = JsonLoads(SubSeq(ReplyText, TheSpan(ReplyText)[1],
                                   TheSpan(ReplyText)[2])).val
    /\ DecodesGreedySpan(ReplyText)

\* C3's case: an object after prose, decoded
C3_Witness ==
  /\ Entered("parse")
  /\ ReplyText = <<Prose, Tok("{"), Str("Gain"), Tok(":"), Str("Gain"), Tok("}")>>
  /\ parsed = Obj(<<<<"Gain", Str("Gain")>>>>)

\* a descriptor as the data model has it: every effect a list of records,
\* every field a number
IsDescriptor(d) ==
  /\ d.k = "obj"
  /\ \A i \in 1..Len(d.members) :
       /\ d.members[i][2].k = "list"
       /\ \A j \in 1..Len(d.members[i][2].items) :
            /\ d.members[i][2].items[j].k = "obj"
            /\ \A m \in 1..Len(d.members[i][2].items[j].members) :
                 d.members[i][2].items[j].members[m][2].k = "num"

\* a record with every listed number moved to the nearest point of its range
Clamped(effect, record) ==
  Obj([m \in 1..Len(record.members) |->
         LET key == record.members[m][1]
             v == record.members[m][2]
         IN IF key \in DOMAIN PARAM_LIMITS[effect] /\ v.k = "num"
            THEN <<key, Num(NearestInRange(v.n, PARAM_LIMITS[effect][key][1],
                                           PARAM_LIMITS[effect][key][2]))>>
            ELSE <<key, v>>])

\* C5: the chain handed to ffmpeg is the expressions of the clamped records
\* of the parsed descriptor; a run whose metadata and model call succeeded
\* and whose reply parsed to a descriptor hands it over once; the reply
\* {"Tempo": [{"tempo_factor": 1.5}]} gives the chain atempo=1.5.
C5_EndToEnd ==
  /\ \A r \in 1..Len(ffmpeg_runs) :
       /\ parsed.k = "obj"
       /\ LET records == RecordsFrom(parsed.members, 1)
          IN Expressions(ffmpeg_runs[r].af) =
               [n \in 1..Len(records) |->
                  Expression(records[n][1], Clamped(records[n][1], records[n][2]))]
  /\ (pc \in {"report", "done"} /\ audio_metadata = "dict"
        /\ response.k = "response" /\ IsDescriptor(parsed)) =>
       Len(ffmpeg_runs) = 1
  /\ (pc \in {"report", "done"} /\ parsed = TempoExample) =>
       /\ Len(ffmpeg_runs) = 1
       /\ ffmpeg_runs[1].af = <<Lit("atempo="), Num(15)>>

\* C5's case: the tempo reply, amid prose, through to ffmpeg
C5_Witness ==
  /\ pc = "done"
  /\ response = Response(TRUE, <<Prose>> \o Encode(TempoExample) \o <<Prose>>)
  /\ Len(ffmpeg_runs) = 1
  /\ ffmpeg_runs[1].af = <<Lit("atempo="), Num(15)>>

\* metadata extraction or the model call has failed
EarlyFailure ==
  \/ audio_metadata = "None"
  \/ Entered("model") /\ response.k = "str"

\* C6 as the spec states it: after a failed metadata extraction or a failed
\* model call, what analyze_audio_and_send_to_gemini returned is false-y and
\* no later step runs (no model call after a failed extraction; no parse,
\* validation, filter building or ffmpeg after either).
C6_EarlyFailure ==
  EarlyFailure =>
    /\ ~Truthy(response)
    /\ audio_metadata = "None" => ~Entered("model")
    /\ \A step \in {"parse", "validate", "build", "ffmpeg"} : ~Entered(step)

\* C7: apply_suggested_modifications returns the output path exactly when
\* the reply parsed to an object and ffmpeg exited with zero, and then the
\* whole pipeline has run; a reply that does not parse returns None with
\* ffmpeg never run; a non-zero exit returns None.
C7_NoPartialSuccess ==
  /\ output_file = OutputFile <=>
       (parsed.k = "obj" /\ Len(ffmpeg_runs) = 1 /\ ffmpeg_runs[1].rc = 0)
  /\ output_file = OutputFile =>
       trace = <<"metadata", "model", "parse", "validate", "build", "ffmpeg">>
  /\ (Entered("parse") /\ parsed = NoneVal) =>
       (output_file = "None" /\ ffmpeg_runs = <<>>)
  /\ (\E r \in 1..Len(ffmpeg_runs) : ffmpeg_runs[r].rc # 0) => output_file = "None"
  /\ pc \in {"report", "done"} => output_file \in {OutputFile, "None"}

\* C7's case: the reply parsed, ffmpeg exited with zero, the path is back
C7_Witness ==
  /\ pc = "done"
  /\ parsed.k = "obj"
  /\ Len(ffmpeg_runs) = 1
  /\ ffmpeg_runs[1].rc = 0
  /\ output_file = OutputFile

StepOrder == <<"metadata", "model", "parse", "validate", "build", "ffmpeg">>
Rank(step) == CHOOSE n \in 1..Len(StepOrder) : StepOrder[n] = step

\* the range of the i-th token of an expression, when it is a parameter slot
SlotLimits(expression, i) ==
  CASE expression[1] = Lit("equalizer=f=") /\ i = 2 -> <<PARAM_LIMITS.EQ.frequency>>
    [] expression[1] = Lit("equalizer=f=") /\ i = 4 -> <<PARAM_LIMITS.EQ.gain>>
    [] expression[1] = Lit("volume=") /\ i = 2 -> <<PARAM_LIMITS.Gain.gain_level>>
    [] expression[1] = Lit("aecho=1.0:0.5:") /\ i = 2 -> <<PARAM_LIMITS.Reverb.reverb_amount>>
    [] expression[1] = Lit("atempo=") /\ i = 2 -> <<PARAM_LIMITS.Tempo.tempo_factor>>
    [] OTHER -> <<>>

InRange(token, lim) == token.k = "num" /\ lim[1] <= token.n /\ token.n <= lim[2]

\* C8: every step is entered at most once and only in the order metadata,
\* model, parse, validate, build, ffmpeg; ffmpeg runs at most once, and only
\* after validation and the build; no number of the chain it is given lies
\* outside the range of its slot.
C8_Order ==
  /\ \A i, j \in 1..Len(trace) : i < j => Rank(trace[i]) < Rank(trace[j])
  /\ Len(ffmpeg_runs) <= 1
  /\ Entered("ffmpeg") <=> Len(ffmpeg_runs) = 1
  /\ Entered("ffmpeg") => (Entered("validate") /\ Entered("build"))
  /\ \A r \in 1..Len(ffmpeg_runs) :
       LET es == Expressions(ffmpeg_runs[r].af)
       IN \A n \in 1..Len(es) : \A i \in 1..Len(es[n]) :
            (SlotLimits(es[n], i) # <<>> /\ es[n][i].k = "num") =>
              InRange(es[n][i], SlotLimits(es[n], i)[1])

\* C8's case: a tempo factor of 5.0 and a gain of -50 in the reply, 2.0 and
\* -12 in the chain of the one ffmpeg run, every step before it entered once
C8_Witness ==
  /\ pc = "done"
  /\ trace = StepOrder
  /\ Len(ffmpeg_runs) = 1
  /\ parsed = Obj(<<<<"Tempo", List(<<Rec1("tempo_factor", 50)>>)>>,
                    <<"Gain", List(<<Rec1("gain_level", -500)>>)>>>>)
  /\ ffmpeg_runs[1].af = <<Lit("atempo="), Num(20), Lit(","),
                           Lit("volume="), Num(-120), Lit("dB")>>

\* C9 as stated: whatever object the parser returns, no exception leaves
\* validate_audio_effects or the filter loop: the run never ends on one.
C9_NoEscape == pc # "crashed"

\* C10 as stated: for a parsed descriptor whose records are mappings with
\* numeric values, every parameter slot of every expression handed to ffmpeg
\* holds a number inside the range of its effect and parameter.
C10_SlotsInRange ==
  \A r \in 1..Len(ffmpeg_runs) :
    IsDescriptor(parsed) =>
      LET es == Expressions(ffmpeg_runs[r].af)
      IN \A n \in 1..Len(es) : \A i \in 1..Len(es[n]) :
           SlotLimits(es[n], i) # <<>> => InRange(es[n][i], SlotLimits(es[n], i)[1])

====
